---- MODULE Spec2Model ----
(***************************************************************************)
(* Model of helpers/validate.py: the citation span resolver                *)
(* (compute_span), the similarity engine (fuzzy_match,                     *)
(* is_duplicate_question) and the two batch validators                     *)
(* (validate_citations, validate_pairs); and of                            *)
(* frontend/api/services/review_store.py: the in-memory review store and   *)
(* the request threads that read and update it.                            *)
(*                                                                         *)
(* Python strings are sequences of one-character strings, offsets are      *)
(* 0-based as in Python, slices are half-open.  Floats that the code       *)
(* produces are ratios of small integers and are kept as reduced           *)
(* fractions <<numerator, denominator>>.                                   *)
(***************************************************************************)
EXTENDS Integers, Sequences, FiniteSets, TLC

VARIABLES
    pc,               \* "start" | "loop" | "done": position of the call
    entry,            \* the function being called
    args,             \* its arguments
    k,                \* batch loop: number of pairs already processed
    valid,            \* batch loop: local list valid
    rejected,         \* batch loop: local list rejected
    batch_questions,  \* batch loop: local list batch_questions
    ret,              \* the returned value
    items,            \* review_store: the module-level list _items
    review_jsonl,     \* review_store: the items written in review.jsonl
    lock,             \* review_store: the thread that holds _lock, 0 when free
    tpc,              \* review_store: the position of each request thread
    tcall,            \* review_store: the call each thread makes
    tnext,            \* review_store: update, keys of the patch already applied
    tret,             \* review_store: what each thread's call returned
    committed         \* history: the values of _items before and after whole patches

store_vars == <<items, review_jsonl, lock, tpc, tcall, tnext, tret, committed>>

vars == <<pc, entry, args, k, valid, rejected, batch_questions, ret,
          items, review_jsonl, lock, tpc, tcall, tnext, tret, committed>>

(***************************************************************************)
(* Bounds of the model.                                                    *)
(***************************************************************************)
MaxDocAtoms == 4      \* a document is a concatenation of at most this many atoms
MaxCitAtoms == 3      \* a citation likewise
MaxTextLen == 3       \* characters of a question / text given to fuzzy_match
MaxHistory == 2       \* entries of existing_questions
MaxPairs == 2         \* pairs of a batch
MaxThreads == 3       \* request threads of the review API, one call each

(***************************************************************************)
(* Python values.                                                          *)
(***************************************************************************)
None == <<"<None>">>          \* Python's None (no string has such a character)
NoValue == <<"<unset>">>      \* a variable that holds nothing yet

Falsy(x) == x = None \/ x = <<>>          \* `not x` for a str-or-None x

Whitespace == {" ", "\n"}
isspace(c) == c \in Whitespace

Min(S) == CHOOSE x \in S : \A y \in S : x <= y
Max(S) == CHOOSE x \in S : \A y \in S : x >= y

\* s[i:j] for 0 <= i <= j <= len(s)
Slice(s, i, j) == SubSeq(s, i + 1, j)

\* The highest offset at which sub occurs in s (used by a faulty variant only)
FindLast(s, sub) ==
    LET at == {i \in 0..(Len(s) - Len(sub)) : Slice(s, i, i + Len(sub)) = sub}
    IN  IF at = {} THEN -1 ELSE Max(at)

\* str.find: the lowest 0-based offset at which sub occurs in s, -1 if none
Find(s, sub) ==
    LET at == {i \in 0..(Len(s) - Len(sub)) : Slice(s, i, i + Len(sub)) = sub}
    IN  IF at = {} THEN -1 ELSE Min(at)

\* str.lstrip / str.rstrip / str.strip with no argument
RECURSIVE LStrip(_)
LStrip(s) ==
    IF s # <<>> /\ isspace(Head(s)) THEN LStrip(Tail(s)) ELSE s

RECURSIVE RStrip(_)
RStrip(s) ==
    IF s # <<>> /\ isspace(s[Len(s)]) THEN RStrip(SubSeq(s, 1, Len(s) - 1)) ELSE s

Strip(s) == RStrip(LStrip(s))

\* re.sub(r'\s+', ' ', s): every maximal run of whitespace becomes one space
RECURSIVE CollapseWhitespace(_)
CollapseWhitespace(s) ==
    IF s = <<>> THEN <<>>
    ELSE IF isspace(Head(s))
         THEN <<" ">> \o CollapseWhitespace(LStrip(s))
         ELSE <<Head(s)>> \o CollapseWhitespace(Tail(s))

(***************************************************************************)
(* compute_span                                                            *)
(***************************************************************************)
Span(found, start_index, end_index) ==
    [found |-> found, start_index |-> start_index, end_index |-> end_index,
     raised |-> "none"]

NotFound == Span(FALSE, -1, -1)

Raised(what) ==
    [found |-> FALSE, start_index |-> -1, end_index |-> -1, raised |-> what]

\* The while loop of the back-mapping, from the state (i, norm_pos, orig_start)
\* to the values of (orig_start, orig_end, i) when the loop is left.
RECURSIVE Walk(_, _, _, _, _, _, _)
Walk(source_content, normalized_source, idx, norm_len, i, norm_pos, orig_start) ==
    IF i >= Len(source_content)
    THEN [orig_start |-> orig_start, orig_end |-> -1, i |-> i, raised |-> "none"]
    ELSE IF isspace(source_content[i + 1]) /\ norm_pos > 0
            /\ norm_pos - 1 >= Len(normalized_source)
    THEN [orig_start |-> orig_start, orig_end |-> -1, i |-> i, raised |-> "IndexError"]
    ELSE IF isspace(source_content[i + 1]) /\ norm_pos > 0
            /\ normalized_source[norm_pos] = " "
    THEN Walk(source_content, normalized_source, idx, norm_len, i + 1, norm_pos, orig_start)
    ELSE LET start == IF norm_pos = idx /\ orig_start = -1 THEN i ELSE orig_start
         IN  IF norm_pos = idx + norm_len
             THEN [orig_start |-> start, orig_end |-> i, i |-> i, raised |-> "none"]
             ELSE Walk(source_content, normalized_source, idx, norm_len,
                       i + 1, norm_pos + 1, start)

\* A faulty MapBack: the offsets of the normalized document are returned as they are.
MapBackNormalizedOffsets(source_content, normalized_source, idx, norm_len) ==
    Span(TRUE, idx, idx + norm_len)

\* Lines 48-71: the offsets of the normalized match, mapped to the original document
MapBack(source_content, normalized_source, idx, norm_len) ==
    LET w == Walk(source_content, normalized_source, idx, norm_len, 0, 0, -1)
        orig_end == IF w.orig_start >= 0 /\ w.orig_end < 0 THEN w.i ELSE w.orig_end
    IN  IF w.raised # "none" THEN Raised(w.raised)
        ELSE IF w.orig_start >= 0 /\ orig_end >= 0
             THEN Span(TRUE, w.orig_start, orig_end)
             ELSE NotFound

\* Lines 42-73: the fallback pass over whitespace-normalized strings
NormalizedPass(citation, source_content) ==
    LET normalized_citation == CollapseWhitespace(Strip(citation))
        normalized_source == CollapseWhitespace(source_content)
        idx == Find(normalized_source, normalized_citation)
    IN  IF idx >= 0
        THEN MapBack(source_content, normalized_source, idx, Len(normalized_citation))
        ELSE NotFound

\* A faulty compute_span: the guard on empty inputs is missing.
compute_span_no_guard(citation, source_content) ==
    LET idx == Find(source_content, citation)
    IN  IF idx >= 0
        THEN Span(TRUE, idx, idx + Len(citation))
        ELSE NormalizedPass(citation, source_content)

\* A faulty compute_span: the exact pass reports the last occurrence.
compute_span_last(citation, source_content) ==
    IF Falsy(citation) \/ Falsy(source_content)
    THEN NotFound
    ELSE LET idx == FindLast(source_content, citation)
         IN  IF idx >= 0
             THEN Span(TRUE, idx, idx + Len(citation))
             ELSE NormalizedPass(citation, source_content)

compute_span(citation, source_content) ==
    IF Falsy(citation) \/ Falsy(source_content)
    THEN NotFound
    ELSE LET idx == Find(source_content, citation)
         IN  IF idx >= 0
             THEN Span(TRUE, idx, idx + Len(citation))
             ELSE NormalizedPass(citation, source_content)

(***************************************************************************)
(* fuzzy_match: difflib.SequenceMatcher(None, t1, t2).ratio() over the      *)
(* lower-cased, whitespace-normalized texts.  The texts of the model are    *)
(* far below the 200 characters at which SequenceMatcher's autojunk         *)
(* heuristic starts, and no junk predicate is given.                        *)
(***************************************************************************)
RECURSIVE GCD(_, _)
GCD(m, n) == IF n = 0 THEN m ELSE GCD(n, m % n)

\* The float n / d, d > 0, as a reduced fraction
Fraction(n, d) == <<n \div GCD(n, d), d \div GCD(n, d)>>

Zero == <<0, 1>>      \* 0.0
One == <<1, 1>>       \* 1.0

\* x >= y for two such floats
GreaterEq(x, y) == x[1] * y[2] >= y[1] * x[2]

\* str.lower, one character
Lower(c) ==
    CASE c = "A" -> "a"
      [] c = "B" -> "b"
      [] c = "C" -> "c"
      [] OTHER -> c

LowerStr(s) == [i \in 1..Len(s) |-> Lower(s[i])]

\* str.split() with no argument: the maximal whitespace-free pieces
RECURSIVE Split(_)
Split(s) ==
    LET t == LStrip(s)
        stops == {i \in 1..Len(t) : isspace(t[i])}
        n == IF stops = {} THEN Len(t) ELSE Min(stops) - 1
    IN  IF t = <<>> THEN <<>>
        ELSE <<SubSeq(t, 1, n)>> \o Split(SubSeq(t, n + 1, Len(t)))

\* ' '.join(words)
RECURSIVE Join(_)
Join(words) ==
    IF words = <<>> THEN <<>>
    ELSE IF Len(words) = 1 THEN words[1]
    ELSE words[1] \o <<" ">> \o Join(Tail(words))

\* SequenceMatcher.find_longest_match(alo, ahi, blo, bhi): the longest block
\* a[i:i+n] = b[j:j+n] within the ranges; among the longest the one that starts
\* earliest in a, and among those the one that starts earliest in b.
find_longest_match(a, b, alo, ahi, blo, bhi) ==
    LET blocks == {x \in (alo..(ahi - 1)) \X (blo..(bhi - 1)) \X (1..Len(a)) :
                       /\ x[1] + x[3] <= ahi
                       /\ x[2] + x[3] <= bhi
                       /\ Slice(a, x[1], x[1] + x[3]) = Slice(b, x[2], x[2] + x[3])}
    IN  IF blocks = {} THEN <<alo, blo, 0>>
        ELSE CHOOSE x \in blocks : \A y \in blocks :
                 \/ x[3] > y[3]
                 \/ x[3] = y[3] /\ x[1] < y[1]
                 \/ x[3] = y[3] /\ x[1] = y[1] /\ x[2] <= y[2]

\* SequenceMatcher.get_matching_blocks, summed: the characters matched in
\* a[alo:ahi] and b[blo:bhi], the longest block first and then, recursively,
\* the pieces to its left and to its right.
RECURSIVE matching_characters(_, _, _, _, _, _)
matching_characters(a, b, alo, ahi, blo, bhi) ==
    LET x == find_longest_match(a, b, alo, ahi, blo, bhi)
        i == x[1]
        j == x[2]
        n == x[3]
    IN  IF n = 0 THEN 0
        ELSE n
             + (IF alo < i /\ blo < j
                THEN matching_characters(a, b, alo, i, blo, j) ELSE 0)
             + (IF i + n < ahi /\ j + n < bhi
                THEN matching_characters(a, b, i + n, ahi, j + n, bhi) ELSE 0)

\* SequenceMatcher(None, a, b).ratio()
ratio(a, b) ==
    LET matches == matching_characters(a, b, 0, Len(a), 0, Len(b))
        length == Len(a) + Len(b)
    IN  IF length # 0 THEN Fraction(2 * matches, length) ELSE One

fuzzy_match(text1, text2) ==
    IF Falsy(text1) \/ Falsy(text2)
    THEN Zero
    ELSE LET t1 == Join(Split(LowerStr(text1)))
             t2 == Join(Split(LowerStr(text2)))
         IN  ratio(t1, t2)

(***************************************************************************)
(* is_duplicate_question                                                   *)
(***************************************************************************)
Duplicate(is_duplicate, matching_question, similarity_score) ==
    [is_duplicate |-> is_duplicate, matching_question |-> matching_question,
     similarity_score |-> similarity_score]

NotDuplicate == Duplicate(FALSE, None, Zero)

\* The for loop of lines 91-96 over the rest of existing_questions
RECURSIVE ScanExisting(_, _, _)
ScanExisting(new_question, existing_questions, threshold) ==
    IF existing_questions = <<>> THEN NotDuplicate
    ELSE LET existing == Head(existing_questions)
             score == fuzzy_match(new_question, existing)
         IN  IF GreaterEq(score, threshold)
             THEN Duplicate(TRUE, existing, score)
             ELSE ScanExisting(new_question, Tail(existing_questions), threshold)

\* A faulty is_duplicate_question: the best-scoring entry is reported.
is_duplicate_question_best(new_question, existing_questions, threshold) ==
    LET hits == {i \in 1..Len(existing_questions) :
                    GreaterEq(fuzzy_match(new_question, existing_questions[i]), threshold)}
        best == CHOOSE i \in hits : \A h \in hits :
                    GreaterEq(fuzzy_match(new_question, existing_questions[i]),
                              fuzzy_match(new_question, existing_questions[h]))
    IN  IF Falsy(new_question) \/ hits = {} THEN NotDuplicate
        ELSE Duplicate(TRUE, existing_questions[best],
                       fuzzy_match(new_question, existing_questions[best]))

is_duplicate_question(new_question, existing_questions, threshold) ==
    IF Falsy(new_question) \/ existing_questions = <<>>
    THEN NotDuplicate
    ELSE ScanExisting(new_question, existing_questions, threshold)

(***************************************************************************)
(* validate_citations and validate_pairs                                   *)
(***************************************************************************)
\* dict.get(key, default)
Get(pair, key, default) == IF key \in DOMAIN pair THEN pair[key] ELSE default

\* {**pair, 'rejection_reason': reason}
Reject(pair, reason) == [rejection_reason |-> reason] @@ pair

\* {**pair, 'rejection_reason': 'duplicate_question', 'similarity_score': ...,
\*  'duplicate_of': ...}
RejectDuplicate(pair, dup) ==
    [rejection_reason |-> "duplicate_question",
     similarity_score |-> dup.similarity_score,
     duplicate_of |-> dup.matching_question] @@ pair

\* The locals of the loop
Locals(v, r, b) == [valid |-> v, rejected |-> r, batch_questions |-> b]

\* A faulty validate_citations_iteration: the question of a pair whose citation
\* is not found is remembered in batch_questions all the same.
validate_citations_iteration_remembers_rejected(pair, a, loc) ==
    LET query == Get(pair, "query", <<>>)
        citation == Get(pair, "citation", <<>>)
        span == compute_span(citation, a.source_content)
        dup == is_duplicate_question(query, a.existing_questions \o loc.batch_questions,
                                     a.question_threshold)
    IN  IF citation = None
        THEN Locals(loc.valid, Append(loc.rejected, Reject(pair, "citation_null")),
                    loc.batch_questions)
        ELSE IF ~span.found
        THEN Locals(loc.valid, Append(loc.rejected, Reject(pair, "citation_not_found")),
                    Append(loc.batch_questions, query))
        ELSE IF dup.is_duplicate
        THEN Locals(loc.valid, Append(loc.rejected, RejectDuplicate(pair, dup)),
                    loc.batch_questions)
        ELSE Locals(Append(loc.valid,
                           [start_index |-> span.start_index,
                            end_index |-> span.end_index] @@ pair),
                    loc.rejected,
                    Append(loc.batch_questions, query))

\* A faulty validate_citations_iteration: no `continue` after the rejection of
\* a duplicate, so the pair goes on to valid as well.
validate_citations_iteration_no_continue(pair, a, loc) ==
    LET query == Get(pair, "query", <<>>)
        citation == Get(pair, "citation", <<>>)
        span == compute_span(citation, a.source_content)
        dup == is_duplicate_question(query, a.existing_questions \o loc.batch_questions,
                                     a.question_threshold)
        accepted == [start_index |-> span.start_index,
                     end_index |-> span.end_index] @@ pair
    IN  IF citation = None
        THEN Locals(loc.valid, Append(loc.rejected, Reject(pair, "citation_null")),
                    loc.batch_questions)
        ELSE IF ~span.found
        THEN Locals(loc.valid, Append(loc.rejected, Reject(pair, "citation_not_found")),
                    loc.batch_questions)
        ELSE IF dup.is_duplicate
        THEN Locals(Append(loc.valid, accepted),
                    Append(loc.rejected, RejectDuplicate(pair, dup)),
                    Append(loc.batch_questions, query))
        ELSE Locals(Append(loc.valid, accepted), loc.rejected,
                    Append(loc.batch_questions, query))

\* Lines 112-155: one iteration of the loop of validate_citations, for pair,
\* with the arguments a of the call and the locals loc
validate_citations_iteration(pair, a, loc) ==
    LET query == Get(pair, "query", <<>>)
        citation == Get(pair, "citation", <<>>)
        span == compute_span(citation, a.source_content)
        dup == is_duplicate_question(query, a.existing_questions \o loc.batch_questions,
                                     a.question_threshold)
    IN  IF citation = None
        THEN Locals(loc.valid, Append(loc.rejected, Reject(pair, "citation_null")),
                    loc.batch_questions)
        ELSE IF ~span.found
        THEN Locals(loc.valid, Append(loc.rejected, Reject(pair, "citation_not_found")),
                    loc.batch_questions)
        ELSE IF dup.is_duplicate
        THEN Locals(loc.valid, Append(loc.rejected, RejectDuplicate(pair, dup)),
                    loc.batch_questions)
        ELSE Locals(Append(loc.valid,
                           [start_index |-> span.start_index,
                            end_index |-> span.end_index] @@ pair),
                    loc.rejected,
                    Append(loc.batch_questions, query))

\* Lines 176-214: one iteration of the loop of validate_pairs
validate_pairs_iteration(pair, a, loc) ==
    LET question == Get(pair, "question", Get(pair, "query", <<>>))
        answer == Get(pair, "answer", Get(pair, "citation", <<>>))
        span == compute_span(answer, a.source_content)
        dup == is_duplicate_question(question, a.existing_questions \o loc.batch_questions,
                                     a.question_threshold)
    IN  IF Falsy(answer)
        THEN Locals(loc.valid, Append(loc.rejected, Reject(pair, "answer_missing")),
                    loc.batch_questions)
        ELSE IF ~span.found
        THEN Locals(loc.valid, Append(loc.rejected, Reject(pair, "answer_mismatch")),
                    loc.batch_questions)
        ELSE IF dup.is_duplicate
        THEN Locals(loc.valid, Append(loc.rejected, RejectDuplicate(pair, dup)),
                    loc.batch_questions)
        ELSE Locals(Append(loc.valid, pair), loc.rejected,
                    Append(loc.batch_questions, question))

(***************************************************************************)
(* Inputs                                                                  *)
(***************************************************************************)
\* All concatenations of at most n members of atoms
RECURSIVE Concats(_, _)
Concats(atoms, n) ==
    IF n = 0 THEN {<<>>}
    ELSE LET shorter == Concats(atoms, n - 1)
         IN  shorter \cup {s \o a : s \in shorter, a \in atoms}

\* Letters, a single space, and a run of two different whitespace characters
SpanAtoms == {<<"a">>, <<"b">>, <<" ">>, <<"\n", " ">>}

Documents == Concats(SpanAtoms, MaxDocAtoms)
Citations == Concats(SpanAtoms, MaxCitAtoms)

\* The sequences over S of length at most n
RECURSIVE SeqsUpTo(_, _)
SeqsUpTo(S, n) ==
    IF n = 0 THEN {<<>>}
    ELSE LET shorter == SeqsUpTo(S, n - 1)
         IN  shorter \cup {Append(q, x) : q \in shorter, x \in S}

\* Texts given to fuzzy_match: three letters, an upper-case letter, a space
TextChars == {"a", "b", "c", "A", " "}
Texts == SeqsUpTo(TextChars, MaxTextLen)

\* Questions given to is_duplicate_question
Questions ==
    {<<>>, <<" ">>, <<"a">>, <<"A">>, <<"b">>, <<"a", "b">>, <<"a", " ", "b">>}

\* The default threshold 0.95 and a lower one
Thresholds == {<<19, 20>>, <<1, 2>>}

\* The document of the batches: "a  b"
BatchDocument == <<"a", " ", " ", "b">>

\* The source_content of a batch: the document, or None when there is none
BatchSources == {BatchDocument, None}

\* Candidate pairs, in the query/citation and in the question/answer vocabulary.
\* Of the citations, "b" is a literal substring of the document, "a b" matches
\* it up to whitespace, "d" does not occur in it.
PairShapes ==
    { [query |-> <<"a">>, citation |-> <<"b">>],
      [query |-> <<"A">>, citation |-> <<"a", " ", "b">>],
      [query |-> <<"a", "b">>, citation |-> <<"b">>],
      [query |-> <<"a">>, citation |-> <<"d">>],
      [query |-> <<"A">>, citation |-> None],
      [query |-> <<"a">>],
      [citation |-> <<"b">>],
      [question |-> <<"a">>, answer |-> <<"b">>],
      [question |-> <<"a", "b">>, answer |-> <<>>] }

\* Every pair carries its position in the batch as an opaque metadata field
WithIds(shapes) == [i \in 1..Len(shapes) |-> [id |-> i] @@ shapes[i]]

Batches == {WithIds(shapes) : shapes \in SeqsUpTo(PairShapes, MaxPairs)}

HistoryQuestions == {<<"a">>, <<"a", "b">>}

\* The review store is not part of a call of validate.py
NoStore ==
    /\ items = <<>>
    /\ review_jsonl = <<>>
    /\ lock = 0
    /\ tpc = <<>>
    /\ tcall = <<>>
    /\ tnext = <<>>
    /\ tret = <<>>
    /\ committed = {}

NoLocals ==
    /\ k = 0
    /\ valid = <<>>
    /\ rejected = <<>>
    /\ batch_questions = <<>>

(***************************************************************************)
(* The span resolver on its own: check_answer of the command line          *)
(***************************************************************************)
InitSpan ==
    /\ pc = "start"
    /\ entry = "compute_span"
    /\ args \in [citation : Citations, source_content : Documents]
    /\ NoLocals
    /\ ret = NoValue
    /\ NoStore

CallComputeSpan ==
    /\ pc = "start"
    /\ entry = "compute_span"
    /\ ret' = compute_span(args.citation, args.source_content)
    /\ pc' = "done"
    /\ UNCHANGED <<entry, args, k, valid, rejected, batch_questions>>
    /\ UNCHANGED store_vars

NextSpan == CallComputeSpan

SpecSpan == InitSpan /\ [][NextSpan]_vars

(***************************************************************************)
(* The similarity engine on its own                                        *)
(***************************************************************************)
InitFuzzy ==
    /\ pc = "start"
    /\ entry = "fuzzy_match"
    /\ args \in [text1 : Texts, text2 : Texts]
    /\ NoLocals
    /\ ret = NoValue
    /\ NoStore

CallFuzzyMatch ==
    /\ pc = "start"
    /\ entry = "fuzzy_match"
    /\ ret' = fuzzy_match(args.text1, args.text2)
    /\ pc' = "done"
    /\ UNCHANGED <<entry, args, k, valid, rejected, batch_questions>>
    /\ UNCHANGED store_vars

NextFuzzy == CallFuzzyMatch

SpecFuzzy == InitFuzzy /\ [][NextFuzzy]_vars

\* check_duplicate of the command line, with the threshold as an argument
InitDuplicate ==
    /\ pc = "start"
    /\ entry = "is_duplicate_question"
    /\ args \in [new_question : Questions,
                 existing_questions : SeqsUpTo(Questions, MaxHistory),
                 threshold : Thresholds]
    /\ NoLocals
    /\ ret = NoValue
    /\ NoStore

CallIsDuplicateQuestion ==
    /\ pc = "start"
    /\ entry = "is_duplicate_question"
    /\ ret' = is_duplicate_question(args.new_question, args.existing_questions,
                                    args.threshold)
    /\ pc' = "done"
    /\ UNCHANGED <<entry, args, k, valid, rejected, batch_questions>>
    /\ UNCHANGED store_vars

NextDuplicate == CallIsDuplicateQuestion

SpecDuplicate == InitDuplicate /\ [][NextDuplicate]_vars

(***************************************************************************)
(* The batch validators: one step per iteration of the loop                *)
(***************************************************************************)
Init ==
    /\ pc = "start"
    /\ entry \in {"validate_citations", "validate_pairs"}
    /\ args \in [pairs : Batches,
                 source_content : BatchSources,
                 existing_questions : SeqsUpTo(HistoryQuestions, MaxHistory),
                 question_threshold : Thresholds]
    /\ NoLocals
    /\ ret = NoValue
    /\ NoStore

\* Lines 106-110 and 171-174: the empty locals
Enter ==
    /\ pc = "start"
    /\ entry \in {"validate_citations", "validate_pairs"}
    /\ pc' = "loop"
    /\ k' = 0
    /\ valid' = <<>>
    /\ rejected' = <<>>
    /\ batch_questions' = <<>>
    /\ UNCHANGED <<entry, args, ret>>
    /\ UNCHANGED store_vars

ValidateCitationsIteration ==
    /\ pc = "loop"
    /\ entry = "validate_citations"
    /\ k < Len(args.pairs)
    /\ LET after == validate_citations_iteration(args.pairs[k + 1], args,
                                                 Locals(valid, rejected, batch_questions))
       IN  /\ valid' = after.valid
           /\ rejected' = after.rejected
           /\ batch_questions' = after.batch_questions
    /\ k' = k + 1
    /\ UNCHANGED <<pc, entry, args, ret>>
    /\ UNCHANGED store_vars

ValidatePairsIteration ==
    /\ pc = "loop"
    /\ entry = "validate_pairs"
    /\ k < Len(args.pairs)
    /\ LET after == validate_pairs_iteration(args.pairs[k + 1], args,
                                             Locals(valid, rejected, batch_questions))
       IN  /\ valid' = after.valid
           /\ rejected' = after.rejected
           /\ batch_questions' = after.batch_questions
    /\ k' = k + 1
    /\ UNCHANGED <<pc, entry, args, ret>>
    /\ UNCHANGED store_vars

\* Lines 157-160 and 216-219
Return ==
    /\ pc = "loop"
    /\ k = Len(args.pairs)
    /\ ret' = [valid |-> valid, rejected |-> rejected]
    /\ pc' = "done"
    /\ UNCHANGED <<entry, args, k, valid, rejected, batch_questions>>
    /\ UNCHANGED store_vars

Next ==
    \/ Enter
    \/ ValidateCitationsIteration
    \/ ValidatePairsIteration
    \/ Return

Spec == Init /\ [][Next]_vars

(***************************************************************************)
(* Properties of the span resolver                                         *)
(***************************************************************************)
SpanDone == entry = "compute_span" /\ pc = "done"

\* sub occurs in s as a literal substring
Occurs(sub, s) ==
    \E i \in 0..(Len(s) - Len(sub)) : Slice(s, i, i + Len(sub)) = sub

\* C1, as stated: for every document D and every substring S = D[i:j] of it
\* (taken non-empty here), also one that occurs more than once in D,
\* compute_span(S, D) returns found = true with start = i and end = j.
C1_ExactOffsetsAsStated ==
    SpanDone =>
        \A i \in 0..Len(args.source_content) : \A j \in (i + 1)..Len(args.source_content) :
            args.citation = Slice(args.source_content, i, j) => ret = Span(TRUE, i, j)

\* C1, amended: for every document D and every non-empty substring S = D[i:j] of
\* it, compute_span(S, D) returns found = true with the offsets of the first
\* occurrence of S in D: D[start:end] = S, end = start + len(S), S occurs at no
\* offset below start, and so start <= i (start = i when S does not occur earlier).
C1_FirstOccurrence ==
    SpanDone =>
        \A i \in 0..Len(args.source_content) : \A j \in (i + 1)..Len(args.source_content) :
            args.citation = Slice(args.source_content, i, j) =>
                /\ ret.found = TRUE
                /\ ret.raised = "none"
                /\ ret.end_index = ret.start_index + (j - i)
                /\ 0 <= ret.start_index /\ ret.start_index <= i
                /\ Slice(args.source_content, ret.start_index, ret.end_index) = args.citation
                /\ \A e \in 0..(ret.start_index - 1) :
                       Slice(args.source_content, e, e + (j - i)) # args.citation

\* A substring taken from a later occurrence resolves to the earlier one.
C1_Witness ==
    /\ SpanDone
    /\ ret.found = TRUE
    /\ \E i \in 0..Len(args.source_content) : \E j \in (i + 1)..Len(args.source_content) :
           /\ args.citation = Slice(args.source_content, i, j)
           /\ ret.start_index < i

\* The citation is resolved by the normalized pass: both inputs non-empty, the
\* citation is no literal substring of the document, and it is found.
ViaNormalizedPass ==
    /\ SpanDone
    /\ args.citation # <<>>
    /\ args.source_content # <<>>
    /\ ~Occurs(args.citation, args.source_content)
    /\ ret.found = TRUE

\* C2: whenever compute_span finds the citation through the normalized pass, the
\* returned offsets lie in the original document and D[start:end], with its
\* whitespace runs collapsed, equals the trimmed, whitespace-collapsed citation.
C2_BackMapping ==
    ViaNormalizedPass =>
        /\ 0 <= ret.start_index
        /\ ret.start_index <= ret.end_index
        /\ ret.end_index <= Len(args.source_content)
        /\ CollapseWhitespace(Slice(args.source_content, ret.start_index, ret.end_index))
               = CollapseWhitespace(Strip(args.citation))

\* A document with leading whitespace and a whitespace run inside the match,
\* which runs to the end of the document.
C2_Witness ==
    /\ ViaNormalizedPass
    /\ isspace(args.source_content[1])
    /\ ret.end_index = Len(args.source_content)
    /\ ret.end_index - ret.start_index > Len(CollapseWhitespace(Strip(args.citation)))
    /\ \E i \in (ret.start_index + 1)..(ret.end_index - 1) :
           isspace(args.source_content[i]) /\ isspace(args.source_content[i + 1])

\* C8: compute_span returns exactly (false, -1, -1), and raises nothing, whenever
\* an input is empty or the whitespace-collapsed document does not contain the
\* trimmed, whitespace-collapsed citation; and a result with found = false
\* carries no offsets other than -1, -1.
C8_NotFound ==
    SpanDone =>
        /\ ( \/ args.citation = <<>>
             \/ args.source_content = <<>>
             \/ ~Occurs(CollapseWhitespace(Strip(args.citation)),
                        CollapseWhitespace(args.source_content)) )
           => ret = NotFound
        /\ ret.raised = "none"
        /\ ret.found = FALSE => ret = NotFound

\* Two non-empty inputs without a whitespace-normalized match.
C8_Witness ==
    /\ SpanDone
    /\ args.citation # <<>>
    /\ args.source_content # <<>>
    /\ Strip(args.citation) # <<>>
    /\ ~Occurs(CollapseWhitespace(Strip(args.citation)),
               CollapseWhitespace(args.source_content))
    /\ ret = NotFound

(***************************************************************************)
(* Properties of the similarity engine                                     *)
(***************************************************************************)
DuplicateDone == entry = "is_duplicate_question" /\ pc = "done"

\* The 1-based positions of the history entries that reach the threshold
Hits ==
    {i \in 1..Len(args.existing_questions) :
        GreaterEq(fuzzy_match(args.new_question, args.existing_questions[i]),
                  args.threshold)}

\* C4: is_duplicate_question reports the first entry of the history, in order,
\* whose similarity to the question reaches the threshold, with that entry's
\* score, even when a later entry scores higher; when no entry reaches the
\* threshold it returns (false, null, 0.0).
C4_FirstMatch ==
    DuplicateDone =>
        IF Hits = {}
        THEN ret = Duplicate(FALSE, None, Zero)
        ELSE /\ ret.is_duplicate = TRUE
             /\ ret.matching_question = args.existing_questions[Min(Hits)]
             /\ ret.similarity_score
                    = fuzzy_match(args.new_question, args.existing_questions[Min(Hits)])
             /\ \A i \in 1..(Min(Hits) - 1) :
                    ~GreaterEq(fuzzy_match(args.new_question, args.existing_questions[i]),
                               args.threshold)

\* Two entries reach the threshold, the later one with the strictly higher
\* score, and the earlier one is reported.
C4_Witness ==
    /\ DuplicateDone
    /\ \E i \in Hits : \E j \in Hits :
           /\ i < j
           /\ i = Min(Hits)
           /\ ~GreaterEq(fuzzy_match(args.new_question, args.existing_questions[i]),
                         fuzzy_match(args.new_question, args.existing_questions[j]))
           /\ ret.matching_question = args.existing_questions[i]
           /\ ret.matching_question # args.existing_questions[j]

FuzzyDone == entry = "fuzzy_match" /\ pc = "done"

\* C9: similarity is symmetric: fuzzy_match(a, b) = fuzzy_match(b, a) for all
\* strings a and b.
C9_Symmetric ==
    FuzzyDone => ret = fuzzy_match(args.text2, args.text1)

(***************************************************************************)
(* Properties of the batch validators                                      *)
(***************************************************************************)
InBatch == entry \in {"validate_citations", "validate_pairs"} /\ pc \in {"loop", "done"}

InValidateCitations == entry = "validate_citations" /\ pc \in {"loop", "done"}

\* The positions in the list out of the entries made for the i-th pair
EntriesOf(out, i) == {n \in 1..Len(out) : out[n].id = i}

\* The entries of out are in the order of the input
InInputOrder(out) == \A m \in 1..Len(out) : \A n \in (m + 1)..Len(out) : out[m].id < out[n].id

\* The i-th pair was rejected with this reason
RejectedAs(i, reason) ==
    \E n \in EntriesOf(rejected, i) : rejected[n].rejection_reason = reason

\* The citation of the i-th pair is given and resolves against the document
Resolves(i) ==
    LET citation == Get(args.pairs[i], "citation", <<>>)
    IN  citation # None /\ compute_span(citation, args.source_content).found

QueryOf(pair) == Get(pair, "query", <<>>)

\* The questions of the pairs accepted before the i-th, in input order
AcceptedBefore(i) ==
    LET earlier == SelectSeq(valid, LAMBDA v : v.id < i)
    IN  [n \in 1..Len(earlier) |-> QueryOf(earlier[n])]

\* The question of the i-th pair reaches the threshold against an entry of seen
ScoresAgainst(i, seen) ==
    \E n \in 1..Len(seen) :
        GreaterEq(fuzzy_match(QueryOf(args.pairs[i]), seen[n]), args.question_threshold)

C5_AbsentOrNullCitation ==
    InValidateCitations =>
        \A i \in 1..k :
            ("citation" \notin DOMAIN args.pairs[i] \/ args.pairs[i].citation = None)
                => RejectedAs(i, "citation_null")

\* C6: after every processed prefix of the batch, in validate_citations and in
\* validate_pairs, every processed pair has exactly one entry in valid and
\* rejected together, len(valid) + len(rejected) is the number of pairs
\* processed, both lists are in input order, and the lists are what is returned.
C6_Partition ==
    InBatch =>
        /\ Len(valid) + Len(rejected) = k
        /\ \A i \in 1..k :
               Cardinality(EntriesOf(valid, i)) + Cardinality(EntriesOf(rejected, i)) = 1
        /\ InInputOrder(valid)
        /\ InInputOrder(rejected)
        /\ pc = "done" =>
               /\ k = Len(args.pairs)
               /\ ret = [valid |-> valid, rejected |-> rejected]

\* A batch of two pairs returned with one pair in each list.
C6_Witness ==
    /\ InBatch
    /\ pc = "done"
    /\ k = 2
    /\ Len(valid) = 1
    /\ Len(rejected) = 1
    /\ rejected[1].rejection_reason = "duplicate_question"

\* C7: without a source document (source_content is None) the batch is stopped
\* as a whole: no pair is processed and no per-pair rejection is made.
C7_HardStop ==
    (InBatch /\ args.source_content = None) =>
        /\ k = 0
        /\ valid = <<>>
        /\ rejected = <<>>

\* The span of the citation (validate_citations) or answer (validate_pairs) of a pair
ResolvedSpan(pair) ==
    IF entry = "validate_citations"
    THEN compute_span(Get(pair, "citation", <<>>), args.source_content)
    ELSE compute_span(Get(pair, "answer", Get(pair, "citation", <<>>)), args.source_content)

\* C10: in validate_citations and in validate_pairs every entry of valid has all
\* the fields of its pair, unchanged, and in addition start_index and end_index,
\* which are the span resolved for the pair; the input pairs carry neither.
C10_ValidKeepsFieldsAndSpan ==
    InBatch =>
        \A n \in 1..Len(valid) :
            LET v == valid[n]
                pair == args.pairs[v.id]
            IN  /\ DOMAIN v = DOMAIN pair \cup {"start_index", "end_index"}
                /\ \A f \in DOMAIN pair : v[f] = pair[f]
                /\ v.start_index = ResolvedSpan(pair).start_index
                /\ v.end_index = ResolvedSpan(pair).end_index
                /\ "start_index" \notin DOMAIN pair

(***************************************************************************)
(* Well-formedness of the resolved span                                    *)
(***************************************************************************)
\* C11: for every citation and document compute_span returns either
\* (false, -1, -1) or found = true with a non-empty half-open range,
\* 0 <= start < end <= len(document); in particular a non-empty citation of
\* whitespace only that is no literal substring of the document never yields
\* found = true with start = end.
C11_WellFormedSpan ==
    SpanDone =>
        \/ ret = NotFound
        \/ /\ ret.found = TRUE
           /\ ret.raised = "none"
           /\ 0 <= ret.start_index
           /\ ret.start_index < ret.end_index
           /\ ret.end_index <= Len(args.source_content)

(***************************************************************************)
(* frontend/api/services/review_store.py, called from the request threads  *)
(* of the review API (the handlers of main.py are plain functions, which   *)
(* the server runs in a thread pool).  A thread may be preempted between   *)
(* any two statements; one assignment to a dict key and one list(_items)   *)
(* are single steps.                                                       *)
(***************************************************************************)
Threads == 1..MaxThreads

\* The item of review.jsonl when the server starts
InitialItem ==
    [citation |-> "old", start_index |-> 0, end_index |-> 3,
     reviewer_notes |-> "", citation_overridden |-> FALSE]

\* patch.model_dump(exclude_none=True) of two requests: the keys in the order
\* of the fields of ItemPatch, and their values
PatchCitation ==
    [keys |-> <<"citation", "start_index", "end_index", "citation_overridden">>,
     values |-> [citation |-> "new", start_index |-> 5, end_index |-> 8,
                 citation_overridden |-> TRUE]]

PatchNotes ==
    [keys |-> <<"reviewer_notes", "start_index">>,
     values |-> [reviewer_notes |-> "checked", start_index |-> 1]]

Patches == {PatchCitation, PatchNotes}

\* Indices of requests: the item, and one past the end of the list
Indices == {0, 1}

InRange(index) == 0 <= index /\ index < Len(items)

\* _items[index][key] = value
SetKey(list, index, key, value) ==
    [list EXCEPT ![index + 1] = (key :> value) @@ @]

InitStore ==
    /\ pc = "start"
    /\ entry = "review_store"
    /\ args = NoValue
    /\ NoLocals
    /\ ret = NoValue
    /\ items = <<InitialItem>>
    /\ review_jsonl = <<InitialItem>>
    /\ lock = 0
    /\ tpc = [t \in Threads |-> "idle"]
    /\ tcall = [t \in Threads |-> NoValue]
    /\ tnext = [t \in Threads |-> 0]
    /\ tret = [t \in Threads |-> NoValue]
    /\ committed = {<<InitialItem>>}

ValidateUnchanged == UNCHANGED <<pc, entry, args, k, valid, rejected, batch_questions, ret>>

\* get_all (lines 60-61): list(_items), without _lock; the copy holds the
\* dicts of _items themselves, observed here as they are at this instant
StoreGetAll(t) ==
    /\ tpc[t] = "idle"
    /\ tcall' = [tcall EXCEPT ![t] = [op |-> "get_all"]]
    /\ tret' = [tret EXCEPT ![t] = items]
    /\ tpc' = [tpc EXCEPT ![t] = "done"]
    /\ UNCHANGED <<items, review_jsonl, lock, tnext, committed>>
    /\ ValidateUnchanged

\* get (lines 64-67), without _lock
StoreGet(t, index) ==
    /\ tpc[t] = "idle"
    /\ tcall' = [tcall EXCEPT ![t] = [op |-> "get", index |-> index]]
    /\ tret' = [tret EXCEPT ![t] = IF InRange(index) THEN items[index + 1] ELSE None]
    /\ tpc' = [tpc EXCEPT ![t] = "done"]
    /\ UNCHANGED <<items, review_jsonl, lock, tnext, committed>>
    /\ ValidateUnchanged

\* update, line 71: with _lock
UpdateAcquire(t, index, patch) ==
    /\ tpc[t] = "idle"
    /\ lock = 0
    /\ lock' = t
    /\ tcall' = [tcall EXCEPT ![t] = [op |-> "update", index |-> index, patch |-> patch]]
    /\ tnext' = [tnext EXCEPT ![t] = 0]
    /\ tpc' = [tpc EXCEPT ![t] = "locked"]
    /\ UNCHANGED <<items, review_jsonl, tret, committed>>
    /\ ValidateUnchanged

\* update, lines 72-73: return None, leaving the with block
UpdateOutOfRange(t) ==
    /\ tpc[t] = "locked"
    /\ ~InRange(tcall[t].index)
    /\ tret' = [tret EXCEPT ![t] = None]
    /\ lock' = 0
    /\ tpc' = [tpc EXCEPT ![t] = "done"]
    /\ UNCHANGED <<items, review_jsonl, tcall, tnext, committed>>
    /\ ValidateUnchanged

\* update, lines 74-76: one iteration of the loop over patch.items()
UpdateSetKey(t) ==
    /\ tpc[t] = "locked"
    /\ InRange(tcall[t].index)
    /\ tnext[t] < Len(tcall[t].patch.keys)
    /\ LET key == tcall[t].patch.keys[tnext[t] + 1]
           value == tcall[t].patch.values[key]
       IN  /\ items' = SetKey(items, tcall[t].index, key, value)
           /\ committed' = IF tnext[t] + 1 = Len(tcall[t].patch.keys)
                           THEN committed \cup {items'}
                           ELSE committed
    /\ tnext' = [tnext EXCEPT ![t] = @ + 1]
    /\ UNCHANGED <<review_jsonl, lock, tpc, tcall, tret>>
    /\ ValidateUnchanged

\* update, line 77: _save_jsonl writes a temporary file and moves it over
\* review.jsonl
UpdateSave(t) ==
    /\ tpc[t] = "locked"
    /\ InRange(tcall[t].index)
    /\ tnext[t] = Len(tcall[t].patch.keys)
    /\ review_jsonl' = items
    /\ tpc' = [tpc EXCEPT ![t] = "saved"]
    /\ UNCHANGED <<items, lock, tcall, tnext, tret, committed>>
    /\ ValidateUnchanged

\* update, line 78: return _items[index], leaving the with block
UpdateReturn(t) ==
    /\ tpc[t] = "saved"
    /\ tret' = [tret EXCEPT ![t] = items[tcall[t].index + 1]]
    /\ lock' = 0
    /\ tpc' = [tpc EXCEPT ![t] = "done"]
    /\ UNCHANGED <<items, review_jsonl, tcall, tnext, committed>>
    /\ ValidateUnchanged

NextStore ==
    \E t \in Threads :
        \/ StoreGetAll(t)
        \/ \E index \in Indices : StoreGet(t, index)
        \/ \E index \in Indices : \E patch \in Patches : UpdateAcquire(t, index, patch)
        \/ UpdateOutOfRange(t)
        \/ UpdateSetKey(t)
        \/ UpdateSave(t)
        \/ UpdateReturn(t)

SpecStore == InitStore /\ [][NextStore]_vars

(***************************************************************************)
(* Properties of the review store                                          *)
(***************************************************************************)
\* The item at position n (1-based) is the item of _items before or after a
\* whole patch
WholePatches(item, n) == \E c \in committed : c[n] = item

\* C12: no get_all() or get(index) that runs while another thread is in
\* update(index, patch) observes the item with only some of the keys of the
\* patch applied: every observed item is the item before a patch or after a
\* whole patch; and updates are serialized, so that review.jsonl holds the
\* effect of every completed update.
C12_AtomicUpdates ==
    entry = "review_store" =>
        /\ \A t \in Threads :
               (tpc[t] = "done" /\ tcall[t].op = "get_all")
                   => \A n \in 1..Len(tret[t]) : WholePatches(tret[t][n], n)
        /\ \A t \in Threads :
               (tpc[t] = "done" /\ tcall[t].op = "get" /\ InRange(tcall[t].index))
                   => WholePatches(tret[t], tcall[t].index + 1)
        /\ lock = 0 => review_jsonl = items

\* The part of C12 that the lock does give: at most one thread is inside
\* update, and whenever no thread is, review.jsonl holds _items, with every
\* completed update.
StoreSerialized ==
    entry = "review_store" =>
        /\ Cardinality({t \in Threads : tpc[t] \in {"locked", "saved"}}) <= 1
        /\ \A t \in Threads : tpc[t] \in {"locked", "saved"} => lock = t
        /\ lock = 0 => review_jsonl = items

====
